---- MODULE Spec2Model ----
(***************************************************************************)
(* A model of the self-notes vector store (src/src/vectorstore.py), of the *)
(* indexing pipeline that fills it (src/src/indexer.py) and of the Notion  *)
(* traversal that feeds the pipeline (src/src/notion.py).                  *)
(*                                                                         *)
(* Numbers: the vectors of the model have small integer components, which  *)
(* float32 represents exactly, so np.array(..., dtype=float32) keeps them. *)
(* A numpy array is its shape and its data: the rows of a 2-D array, the   *)
(* scalars of a 1-D one.  An .npy file is the shape and the flat buffer.   *)
(***************************************************************************)
EXTENDS Integers, Sequences, FiniteSets, TLC

VARIABLES
    disk,   \* the store directory: embeddings.npy and metadata.json
    store,  \* the VectorStore instance: self.embeddings, self.metadata
    call,   \* the last call made, its inputs and its outcome
    notion  \* the Notion workspace and the configured ROOT_PAGES

vars == <<disk, store, call, notion>>

(***************************************************************************)
(* Bounds of the model.                                                    *)
(***************************************************************************)
MaxRecords == 3     \* add is not called on a store that would outgrow this
MaxK == 2           \* n_results ranges over 0..MaxK

(***************************************************************************)
(* Input domains.                                                          *)
(***************************************************************************)
Vec2 == {<<1, 0>>, <<1, 1>>}
Vec1 == {<<1>>}
QueryVecs == {<<1, 0>>, <<-1, 0>>, <<1>>}
PageIds == {"a1", "b2"}
BatchLens == 0..2

\* a chunk handed to add: its vector and the page it comes from
Chunks == (Vec2 \X PageIds) \cup (Vec1 \X {"a1"})

\* page_id.replace('-', '') on the ids of the model
Dashless(id) ==
    IF id = "a-1" THEN "a1"
    ELSE IF id = "b-2" THEN "b2"
    ELSE IF id = "r-0" THEN "r0"
    ELSE id

Title(p) ==
    IF Dashless(p) = "a1" THEN "Alpha"
    ELSE IF Dashless(p) = "b2" THEN "Beta" ELSE "Root"

Text(p) ==
    IF Dashless(p) = "a1" THEN "text a"
    ELSE IF Dashless(p) = "b2" THEN "text b" ELSE "text r"

\* the metadata dict a caller of add passes for a chunk of page p
Meta(p) == [page_id |-> p, title |-> Title(p)]

SeqsOf(S, lens) == UNION {[1..n -> S] : n \in lens}

(***************************************************************************)
(* numpy                                                                   *)
(***************************************************************************)
NoArray == [none |-> TRUE, shape |-> <<>>, data |-> <<>>]

Array(shape, data) == [none |-> FALSE, shape |-> shape, data |-> data]

\* np.array(list_of_lists, dtype=np.float32): ValueError on ragged input
NpArray(lists) ==
    IF lists = <<>>
    THEN [raised |-> FALSE, arr |-> Array(<<0>>, <<>>)]
    ELSE IF \A i \in 1..Len(lists) : Len(lists[i]) = Len(lists[1])
         THEN [raised |-> FALSE,
               arr |-> Array(<<Len(lists), Len(lists[1])>>, lists)]
         ELSE [raised |-> TRUE, arr |-> NoArray]

\* np.atleast_2d, as np.vstack applies it to each operand
AtLeast2d(a) ==
    IF Len(a.shape) = 1
    THEN Array(<<1, a.shape[1]>>, <<a.data>>)
    ELSE a

\* a plausible slip: rows of another length are cut or zero-padded to fit
VStackPadding(a, b) ==
    LET a2 == AtLeast2d(a)
        b2 == AtLeast2d(b)
    IN  [raised |-> FALSE,
         arr |-> Array(<<a2.shape[1] + b2.shape[1], a2.shape[2]>>,
                       a2.data \o [i \in 1..b2.shape[1] |->
                                     [j \in 1..a2.shape[2] |->
                                         IF j <= b2.shape[2]
                                         THEN b2.data[i][j] ELSE 0]])]

\* np.vstack([a, b]): ValueError unless the column counts agree
VStack(a, b) ==
    LET a2 == AtLeast2d(a)
        b2 == AtLeast2d(b)
    IN  IF a2.shape[2] # b2.shape[2]
        THEN [raised |-> TRUE, arr |-> NoArray]
        ELSE [raised |-> FALSE,
              arr |-> Array(<<a2.shape[1] + b2.shape[1], a2.shape[2]>>,
                            a2.data \o b2.data)]

\* len(arr): the size of the first axis
NumRows(a) == IF a.none THEN 0 ELSE a.shape[1]

NoFile == [exists |-> FALSE, shape |-> <<>>, bytes |-> <<>>]

\* np.save: the header carries the shape, the body the flat buffer
NpSave(a) ==
    [exists |-> TRUE,
     shape |-> a.shape,
     bytes |-> IF Len(a.shape) = 1
               THEN a.data
               ELSE [i \in 1..(a.shape[1] * a.shape[2]) |->
                        a.data[((i - 1) \div a.shape[2]) + 1]
                              [((i - 1) % a.shape[2]) + 1]]]

\* np.load: the buffer reshaped to the header's shape
NpLoad(f) ==
    IF Len(f.shape) = 1
    THEN Array(f.shape, f.bytes)
    ELSE Array(f.shape,
               [i \in 1..f.shape[1] |->
                   [j \in 1..f.shape[2] |-> f.bytes[(i - 1) * f.shape[2] + j]]])

(***************************************************************************)
(* json: an object is written as its members in key order, and read back   *)
(* as a dict.                                                              *)
(***************************************************************************)
KeyOrder == <<"page_id", "title", "url", "last_edited", "chunk_index", "document">>

RECURSIVE Members(_, _)
Members(d, i) ==
    IF i > Len(KeyOrder) THEN <<>>
    ELSE IF KeyOrder[i] \in DOMAIN d
         THEN <<<<KeyOrder[i], d[KeyOrder[i]]>>>> \o Members(d, i + 1)
         ELSE Members(d, i + 1)

JsonDumpObject(d) == Members(d, 1)

JsonLoadObject(o) ==
    [key \in {o[i][1] : i \in 1..Len(o)} |->
        LET i == CHOOSE i \in 1..Len(o) : o[i][1] = key IN o[i][2]]

NoJson == [exists |-> FALSE, text |-> <<>>]

JsonDump(list) ==
    [exists |-> TRUE, text |-> [i \in 1..Len(list) |-> JsonDumpObject(list[i])]]

JsonLoad(f) == [i \in 1..Len(f.text) |-> JsonLoadObject(f.text[i])]

(***************************************************************************)
(* VectorStore                                                             *)
(***************************************************************************)
\* __init__ and _load: the artifacts are read only when both exist
Load(d) ==
    IF d.emb.exists /\ d.meta.exists
    THEN [embeddings |-> NpLoad(d.emb), metadata |-> JsonLoad(d.meta)]
    ELSE [embeddings |-> NoArray, metadata |-> <<>>]

\* a plausible slip: only metadata.json is written
SaveMetadataOnly(s, d) == [emb |-> d.emb, meta |-> JsonDump(s.metadata)]

\* _save: embeddings.npy is written only when self.embeddings is not None
Save(s, d) ==
    [emb |-> IF s.embeddings.none THEN d.emb ELSE NpSave(s.embeddings),
     meta |-> JsonDump(s.metadata)]

\* clear: the state of the instance and of the directory afterwards
ClearStore == [embeddings |-> NoArray, metadata |-> <<>>]

\* a plausible slip: metadata.json is left behind
ClearDiskKeepsMetadata(d) == [emb |-> NoFile, meta |-> d.meta]

ClearDisk(d) == [emb |-> NoFile, meta |-> NoJson]

\* {**meta, "document": doc}
Entry(doc, meta) ==
    [key \in DOMAIN meta \cup {"document"} |->
        IF key = "document" THEN doc ELSE meta[key]]

\* a plausible slip: the new entries are built last to first
NewMetadataReversed(documents, metadatas) ==
    LET n == IF Len(documents) < Len(metadatas)
             THEN Len(documents) ELSE Len(metadatas)
    IN  [i \in 1..n |-> Entry(documents[n + 1 - i], metadatas[n + 1 - i])]

\* zip(documents, metadatas) stops at the shorter of the two
NewMetadata(documents, metadatas) ==
    LET n == IF Len(documents) < Len(metadatas)
             THEN Len(documents) ELSE Len(metadatas)
    IN  [i \in 1..n |-> Entry(documents[i], metadatas[i])]

\* add: the instance and the directory afterwards, or the exception
AddResult(s, d, embeddings, documents, metadatas) ==
    LET new == NpArray(embeddings)
        newMeta == NewMetadata(documents, metadatas)
    IN  IF new.raised
        THEN [raised |-> TRUE, store |-> s, disk |-> d]
        ELSE IF s.embeddings.none
        THEN LET s2 == [embeddings |-> new.arr, metadata |-> newMeta]
             IN  [raised |-> FALSE, store |-> s2, disk |-> Save(s2, d)]
        ELSE LET stacked == VStack(s.embeddings, new.arr)
             IN  IF stacked.raised
                 THEN [raised |-> TRUE, store |-> s, disk |-> d]
                 ELSE LET s2 == [embeddings |-> stacked.arr,
                                 metadata |-> s.metadata \o newMeta]
                      IN  [raised |-> FALSE, store |-> s2, disk |-> Save(s2, d)]

\* count
Count(s) == Len(s.metadata)

\* get_all_metadata
WithoutDocument(m) == [key \in DOMAIN m \ {"document"} |-> m[key]]

GetAllMetadataResult(s) == [i \in 1..Len(s.metadata) |-> WithoutDocument(s.metadata[i])]

(***************************************************************************)
(* query: cosine similarity.  dot / (|v| * |q| + 1e-10) is kept exact as   *)
(* the pair num / den with num = sign(dot) * dot^2 and den = |v|^2 * |q|^2 *)
(* (the square of the quotient, with its sign); when |v| * |q| = 0 the dot *)
(* product is 0 and the quotient is 0 / 1e-10 = 0.  For |v| * |q| >= 1 the *)
(* float32 sum absorbs the 1e-10.                                          *)
(***************************************************************************)
RECURSIVE Dot(_, _)
Dot(v, q) == IF v = <<>> THEN 0 ELSE v[1] * q[1] + Dot(Tail(v), Tail(q))

Similarity(v, q) ==
    LET dot == Dot(v, q)
        den == Dot(v, v) * Dot(q, q)
    IN  IF den = 0
        THEN [num |-> 0, den |-> 1]
        ELSE [num |-> IF dot < 0 THEN -(dot * dot) ELSE dot * dot, den |-> den]

SimLess(a, b) == a.num * b.den < b.num * a.den

\* 1 - similarity
Distance(sim) == [one_minus |-> sim]

DistLess(a, b) == SimLess(b.one_minus, a.one_minus)

\* np.argsort(similarities): ascending; the default sort is not stable, so
\* equal similarities may come out in any order
ArgSorts(sims) ==
    {p \in Permutations(1..Len(sims)) :
        \A i, j \in 1..Len(sims) : i < j => ~SimLess(sims[p[j]], sims[p[i]])}

\* seq[-k:]
LastK(seq, k) ==
    IF k = 0 THEN seq
    ELSE IF k >= Len(seq) THEN seq
    ELSE SubSeq(seq, Len(seq) - k + 1, Len(seq))

\* seq[::-1]
Reverse(seq) == [i \in 1..Len(seq) |-> seq[Len(seq) + 1 - i]]

EmptyResult ==
    [raised |-> FALSE, indices |-> <<>>, documents |-> <<>>,
     metadatas |-> <<>>, distances |-> <<>>]

RaisedResult ==
    [raised |-> TRUE, indices |-> <<>>, documents |-> <<>>,
     metadatas |-> <<>>, distances |-> <<>>]

\* whether query gets as far as np.argsort
QuerySorts(s, q) ==
    /\ ~s.embeddings.none
    /\ Len(s.metadata) # 0
    /\ Len(s.embeddings.shape) = 2
    /\ s.embeddings.shape[2] = Len(q)

Similarities(s, q) ==
    [i \in 1..NumRows(s.embeddings) |-> Similarity(s.embeddings.data[i], q)]

\* the orders np.argsort may return in query(q, ...)
QueryOrders(s, q) ==
    IF QuerySorts(s, q) THEN ArgSorts(Similarities(s, q)) ELSE {<<>>}

\* query(query_embedding, n_results), np.argsort having returned order
QueryResult(s, q, n_results, order) ==
    IF s.embeddings.none \/ Len(s.metadata) = 0
    THEN EmptyResult
    ELSE IF ~QuerySorts(s, q)
    THEN RaisedResult
    ELSE LET sims == Similarities(s, q)
             k == IF n_results < Len(s.metadata)
                  THEN n_results ELSE Len(s.metadata)
             top == Reverse(LastK(order, k))
         IN  IF \E i \in 1..Len(top) : top[i] > Len(s.metadata)
             THEN RaisedResult
             ELSE [raised |-> FALSE,
                   indices |-> top,
                   documents |-> [i \in 1..Len(top) |->
                                     s.metadata[top[i]]["document"]],
                   metadatas |-> [i \in 1..Len(top) |->
                                     WithoutDocument(s.metadata[top[i]])],
                   distances |-> [i \in 1..Len(top) |->
                                     Distance(sims[top[i]])]]

(***************************************************************************)
(* Notion.  A workspace gives, per page (keyed by its dashless id), the    *)
(* ids of its child_page blocks as the API returns them and the chunks its *)
(* text content splits into (none: the content is blank); fail names the   *)
(* request that raises during a run: pages.retrieve or                     *)
(* blocks.children.list of one page, or none.                              *)
(***************************************************************************)
NotionPages == {"r0", "a1", "b2"}

NoFail == [kind |-> "none", page |-> "none"]

Fails ==
    {NoFail} \cup [kind : {"retrieve", "blocks"}, page : NotionPages]

Children ==
    {[r0 |-> <<"a-1", "b-2">>, a1 |-> <<>>, b2 |-> <<>>],
     [r0 |-> <<"a-1">>, a1 |-> <<"r-0", "b-2">>, b2 |-> <<>>],
     [r0 |-> <<"a-1", "a-1">>, a1 |-> <<"b-2">>, b2 |-> <<"a-1">>]}

Contents ==
    {[r0 |-> <<"text r">>, a1 |-> <<"text a">>, b2 |-> <<"text b">>],
     [r0 |-> <<>>, a1 |-> <<"text a", "more">>, b2 |-> <<"text b">>]}

RootLists ==
    {<<"r0">>,
     <<"https://www.notion.so/Root-r0", "b2">>,
     <<"not a page", "r-0", "r0">>,
     <<>>}

Workspaces ==
    [api_key : {TRUE}, roots : RootLists, children : Children,
     content : Contents, fail : Fails]
    \cup [api_key : {FALSE}, roots : {<<"r0">>}, children : Children,
          content : Contents, fail : {NoFail}]

\* parse_page_id on the entries of the model: an id with or without dashes,
\* a URL ending in the id, or a string with no id in it (ValueError)
ParsePageId(url_or_id) ==
    IF url_or_id \in {"r0", "r-0", "https://www.notion.so/Root-r0"}
    THEN [raised |-> FALSE, id |-> "r0"]
    ELSE IF url_or_id \in {"b2", "b-2"}
    THEN [raised |-> FALSE, id |-> "b2"]
    ELSE IF url_or_id \in {"a1", "a-1"}
    THEN [raised |-> FALSE, id |-> "a1"]
    ELSE [raised |-> TRUE, id |-> ""]

\* get_page_url
Url(p) == IF Dashless(p) = "a1" THEN "https://www.notion.so/Alpha-a1"
          ELSE IF Dashless(p) = "b2" THEN "https://www.notion.so/Beta-b2"
          ELSE "https://www.notion.so/Root-r0"

LastEdited == "2024-01-01T00:00:00.000Z"

\* the dict fetch_page_recursive yields: the id is the one it was called with
PageDict(w, page_id) ==
    [id |-> page_id, title |-> Title(page_id), url |-> Url(page_id),
     last_edited |-> LastEdited, content |-> w.content[Dashless(page_id)]]

NoTraversal == [visited |-> {}, retrieved |-> <<>>, yielded |-> <<>>, raised |-> FALSE]

\* fetch_page_recursive(client, page_id, visited), and its loop over the
\* children; t is the traversal so far: the visited set, the pages.retrieve
\* calls made, the pages yielded, and whether an exception is propagating
RECURSIVE FetchPageRecursive(_, _, _), FetchChildren(_, _, _)
\* a plausible slip: visited holds the ids as they were passed in
FetchPageRecursiveRawIds(w, page_id, t) ==
    LET normalized_id == Dashless(page_id)
        t1 == [t EXCEPT !.visited = @ \cup {page_id},
                        !.retrieved = Append(@, page_id)]
    IN  IF page_id \in t.visited
        THEN t
        ELSE IF w.fail = [kind |-> "retrieve", page |-> normalized_id]
        THEN t1
        ELSE IF w.fail = [kind |-> "blocks", page |-> normalized_id]
        THEN [t1 EXCEPT !.raised = TRUE]
        ELSE FetchChildren(w, w.children[normalized_id],
                 IF w.content[normalized_id] # <<>>
                 THEN [t1 EXCEPT !.yielded = Append(@, PageDict(w, page_id))]
                 ELSE t1)

FetchPageRecursive(w, page_id, t) ==
    LET normalized_id == Dashless(page_id)
        t1 == [t EXCEPT !.visited = @ \cup {normalized_id},
                        !.retrieved = Append(@, page_id)]
    IN  IF normalized_id \in t.visited
        THEN t
        ELSE IF w.fail = [kind |-> "retrieve", page |-> normalized_id]
        THEN t1
        ELSE IF w.fail = [kind |-> "blocks", page |-> normalized_id]
        THEN [t1 EXCEPT !.raised = TRUE]
        ELSE FetchChildren(w, w.children[normalized_id],
                 IF w.content[normalized_id] # <<>>
                 THEN [t1 EXCEPT !.yielded = Append(@, PageDict(w, page_id))]
                 ELSE t1)

FetchChildren(w, child_page_ids, t) ==
    IF child_page_ids = <<>>
    THEN t
    ELSE LET t1 == FetchPageRecursive(w, Head(child_page_ids), t)
         IN  IF t1.raised THEN t1
             ELSE FetchChildren(w, Tail(child_page_ids), t1)

\* fetch_root_pages: the loop over ROOT_PAGES; an exception under one root
\* is caught and the loop goes on with the next root
RECURSIVE FetchRoots(_, _, _)
FetchRoots(w, roots, t) ==
    IF roots = <<>>
    THEN t
    ELSE LET parsed == ParsePageId(Head(roots))
             t1 == IF parsed.raised THEN t
                   ELSE FetchPageRecursive(w, parsed.id, t)
         IN  FetchRoots(w, Tail(roots), [t1 EXCEPT !.raised = FALSE])

\* fetch_root_pages: ValueError when no root is configured
FetchRootPages(w) ==
    IF w.roots = <<>>
    THEN [NoTraversal EXCEPT !.raised = TRUE]
    ELSE FetchRoots(w, w.roots, NoTraversal)

(***************************************************************************)
(* The indexing pipeline.  The splitter is modelled by the content being   *)
(* the chunks it splits into; the embedding model returns vectors of one   *)
(* dimensionality.                                                         *)
(***************************************************************************)
\* splitter.split_text(page["content"])
SplitText(content) == content

\* embeddings.embed_documents(chunks)
EmbedText(chunk) ==
    IF chunk = "text b" THEN <<1, 1>>
    ELSE IF chunk = "more" THEN <<0, 1>>
    ELSE <<1, 0>>

EmbedDocuments(chunks) == [i \in 1..Len(chunks) |-> EmbedText(chunks[i])]

\* the metadata index_all_pages builds for the chunks of a page
ChunkMetadatas(page, chunks) ==
    [i \in 1..Len(chunks) |->
        [page_id |-> page.id, title |-> page.title, url |-> page.url,
         last_edited |-> page.last_edited, chunk_index |-> i - 1]]

\* the loop of index_all_pages over the yielded pages; r is the run so far
RECURSIVE IndexPages(_, _)
IndexPages(pages, r) ==
    IF pages = <<>>
    THEN r
    ELSE LET chunks == SplitText(Head(pages).content)
         IN  IF chunks = <<>>
             THEN IndexPages(Tail(pages), r)
             ELSE LET a == AddResult(r.store, r.disk, EmbedDocuments(chunks),
                                     chunks, ChunkMetadatas(Head(pages), chunks))
                  IN  IF a.raised
                      THEN [r EXCEPT !.raised = TRUE]
                      ELSE IndexPages(Tail(pages),
                               [r EXCEPT !.store = a.store, !.disk = a.disk,
                                         !.total_chunks = @ + Len(chunks)])

\* index_all_pages: the instance, the directory and the return value
\* afterwards, or the exception
IndexAllPagesResult(w, d) ==
    LET loaded == Load(d)
        existing_count == Count(loaded)
        start == [raised |-> FALSE, total_chunks |-> 0,
                  store |-> IF existing_count > 0 THEN ClearStore ELSE loaded,
                  disk |-> IF existing_count > 0 THEN ClearDisk(d) ELSE d]
        t == FetchRootPages(w)
    IN  IF ~w.api_key
        THEN [raised |-> TRUE, total_chunks |-> 0, store |-> loaded, disk |-> d]
        ELSE IF t.raised
        THEN [start EXCEPT !.raised = TRUE]
        ELSE IndexPages(t.yielded, start)

(***************************************************************************)
(* The query pipeline and the source listing.  Both open a VectorStore of  *)
(* their own over the directory.  A dict is its items in insertion order.  *)
(***************************************************************************)
TOP_K_RESULTS == 4

NoNotesIndexed == "No notes indexed yet. Run 'python cli.py index' first."

NoRelevantNotes == "No relevant notes found."

Questions == {"about a", "about b", "about more"}

\* embeddings.embed_query(question): the model index_all_pages embeds with
EmbedQuery(question) ==
    IF question = "about b" THEN <<1, 1>>
    ELSE IF question = "about more" THEN <<0, 1>>
    ELSE <<1, 0>>

\* what may go wrong with the models during one query: nothing, the
\* embedding request or the generation request
ModelFails == {"none", "embed", "llm"}

\* llm.invoke(prompt): whatever the model generates
Answers == {"It is in Alpha.", "I don't have information about that in my notes"}

NoLoop == [raised |-> FALSE, context_parts |-> <<>>, sources |-> <<>>,
           seen_pages |-> {}]

\* a plausible slip: seen_pages remembers the last page only
RECURSIVE QueryLoop(_, _, _)
QueryLoopSeenLast(chunks, metadatas, r) ==
    IF chunks = <<>> \/ metadatas = <<>>
    THEN r
    ELSE LET meta == Head(metadatas)
             r1 == [r EXCEPT !.context_parts =
                        Append(@, [from |-> meta.title, chunk |-> Head(chunks)])]
         IN  QueryLoop(Tail(chunks), Tail(metadatas),
                 IF meta.page_id \notin r.seen_pages
                 THEN [r1 EXCEPT !.seen_pages = {meta.page_id},
                                 !.sources = Append(@, [title |-> meta.title,
                                                        url |-> meta.url])]
                 ELSE r1)

\* the loop of query over zip(chunks, metadatas); r is context_parts,
\* sources and seen_pages so far; a record without the key read: KeyError
QueryLoop(chunks, metadatas, r) ==
    IF chunks = <<>> \/ metadatas = <<>>
    THEN r
    ELSE LET meta == Head(metadatas)
         IN  IF ~({"title", "page_id", "url"} \subseteq DOMAIN meta)
             THEN [r EXCEPT !.raised = TRUE]
             ELSE LET r1 == [r EXCEPT !.context_parts =
                                Append(@, [from |-> meta.title,
                                           chunk |-> Head(chunks)])]
                  IN  QueryLoop(Tail(chunks), Tail(metadatas),
                          IF meta.page_id \notin r.seen_pages
                          THEN [r1 EXCEPT !.seen_pages = @ \cup {meta.page_id},
                                          !.sources =
                                              Append(@, [title |-> meta.title,
                                                         url |-> meta.url])]
                          ELSE r1)

\* what query returns or raises; embed_calls and llm_calls count the
\* requests to the two models, retrieved is results["metadatas"][0]
QueryReturn(answer, sources, embed_calls, llm_calls, retrieved) ==
    [raised |-> FALSE, answer |-> answer, sources |-> sources,
     embed_calls |-> embed_calls, llm_calls |-> llm_calls,
     retrieved |-> retrieved]

QueryRaise(embed_calls, llm_calls, retrieved) ==
    [raised |-> TRUE, answer |-> "", sources |-> <<>>,
     embed_calls |-> embed_calls, llm_calls |-> llm_calls,
     retrieved |-> retrieved]

\* a plausible slip: the emptiness check comes after the embedding
RagQueryEmbedsFirst(d, question, order, fail, answer) ==
    LET s == Load(d)
        results == QueryResult(s, EmbedQuery(question), TOP_K_RESULTS, order)
        loop == QueryLoop(results.documents, results.metadatas, NoLoop)
    IN  IF fail = "embed"
        THEN QueryRaise(1, 0, <<>>)
        ELSE IF Count(s) = 0
        THEN QueryReturn(NoNotesIndexed, <<>>, 1, 0, <<>>)
        ELSE IF results.raised
        THEN QueryRaise(1, 0, <<>>)
        ELSE IF results.documents = <<>>
        THEN QueryReturn(NoRelevantNotes, <<>>, 1, 0, <<>>)
        ELSE IF loop.raised
        THEN QueryRaise(1, 0, results.metadatas)
        ELSE IF fail = "llm"
        THEN QueryRaise(1, 1, results.metadatas)
        ELSE QueryReturn(answer, loop.sources, 1, 1, results.metadatas)

\* query(question) over the directory d, np.argsort having returned order
\* and the generation model answer
RagQuery(d, question, order, fail, answer) ==
    LET s == Load(d)
        results == QueryResult(s, EmbedQuery(question), TOP_K_RESULTS, order)
        loop == QueryLoop(results.documents, results.metadatas, NoLoop)
    IN  IF Count(s) = 0
        THEN QueryReturn(NoNotesIndexed, <<>>, 0, 0, <<>>)
        ELSE IF fail = "embed"
        THEN QueryRaise(1, 0, <<>>)
        ELSE IF results.raised
        THEN QueryRaise(1, 0, <<>>)
        ELSE IF results.documents = <<>>
        THEN QueryReturn(NoRelevantNotes, <<>>, 1, 0, <<>>)
        ELSE IF loop.raised
        THEN QueryRaise(1, 0, results.metadatas)
        ELSE IF fail = "llm"
        THEN QueryRaise(1, 1, results.metadatas)
        ELSE QueryReturn(answer, loop.sources, 1, 1, results.metadatas)

\* the loop of get_indexed_sources: pages is the dict so far
RECURSIVE IndexedPages(_, _)
IndexedPages(all_metadata, pages) ==
    IF all_metadata = <<>>
    THEN pages
    ELSE LET meta == Head(all_metadata)
             page_id == meta.page_id
         IN  IndexedPages(Tail(all_metadata),
                 IF \A i \in 1..Len(pages) : pages[i].key # page_id
                 THEN Append(pages,
                          [key |-> page_id,
                           value |-> [title |-> meta.title, url |-> meta.url,
                                      last_edited |-> meta.last_edited]])
                 ELSE pages)

\* get_indexed_sources() over the directory d: list(pages.values())
GetIndexedSourcesResult(d) ==
    LET all_metadata == GetAllMetadataResult(Load(d))
        pages == IndexedPages(all_metadata, <<>>)
    IN  IF all_metadata = <<>>
        THEN <<>>
        ELSE [i \in 1..Len(pages) |-> pages[i].value]

(***************************************************************************)
(* The directory a VectorStore is constructed over is an input: it may     *)
(* hold both artifacts, one of them or none, whatever wrote them.  _save   *)
(* and clear touch the two files one after the other, so a run that stops  *)
(* in between leaves one file, or files of different lengths.              *)
(***************************************************************************)
EntryA == Entry(Text("a1"), Meta("a1"))
EntryB == Entry(Text("b2"), Meta("b2"))

InitDisks ==
    [emb : {NoFile,
            NpSave(Array(<<1, 2>>, <<<<0, 0>>>>)),
            NpSave(Array(<<2, 2>>, <<<<0, 0>>, <<1, 1>>>>))},
     meta : {NoJson,
             JsonDump(<<>>),
             JsonDump(<<EntryA>>),
             JsonDump(<<EntryA, EntryB>>)}]

NoArgs == [embeddings |-> <<>>, documents |-> <<>>, metadatas |-> <<>>,
           q |-> <<>>, k |-> 0]

\* the workspace of the runs that do not index
HomeWorkspace ==
    [api_key |-> TRUE, roots |-> <<"r0">>,
     children |-> [r0 |-> <<"a-1", "b-2">>, a1 |-> <<>>, b2 |-> <<>>],
     content |-> [r0 |-> <<"text r">>, a1 |-> <<"text a">>, b2 |-> <<"text b">>],
     fail |-> NoFail]

Init ==
    /\ notion = HomeWorkspace
    /\ disk \in InitDisks
    /\ store = Load(disk)
    /\ call = [op |-> "construct", raised |-> FALSE, args |-> NoArgs, ret |-> <<>>]

\* VectorStore(path): a new instance over the directory
Construct ==
    /\ store' = Load(disk)
    /\ call' = [op |-> "construct", raised |-> FALSE, args |-> NoArgs, ret |-> <<>>]
    /\ UNCHANGED <<disk, notion>>

\* store.add(embeddings, documents, metadatas), the three of one length
Add ==
    \E batch \in SeqsOf(Chunks, BatchLens) :
        LET embeddings == [i \in 1..Len(batch) |-> batch[i][1]]
            documents == [i \in 1..Len(batch) |-> Text(batch[i][2])]
            metadatas == [i \in 1..Len(batch) |-> Meta(batch[i][2])]
            r == AddResult(store, disk, embeddings, documents, metadatas)
        IN  /\ NumRows(store.embeddings) + Len(batch) <= MaxRecords
            /\ Len(store.metadata) + Len(batch) <= MaxRecords
            /\ store' = r.store
            /\ disk' = r.disk
            /\ call' = [op |-> "add", raised |-> r.raised,
                        args |-> [NoArgs EXCEPT !.embeddings = embeddings,
                                                !.documents = documents,
                                                !.metadatas = metadatas],
                        ret |-> <<>>]
            /\ UNCHANGED notion

\* store.clear()
Clear ==
    /\ store' = ClearStore
    /\ disk' = ClearDisk(disk)
    /\ call' = [op |-> "clear", raised |-> FALSE, args |-> NoArgs, ret |-> <<>>,
                before |-> [count |-> Count(store), emb |-> disk.emb.exists,
                            meta |-> disk.meta.exists]]
    /\ UNCHANGED notion

\* store.query(query_embedding, n_results)
Query ==
    \E q \in QueryVecs :
        LET orders == QueryOrders(store, q)
        IN  \E k \in 0..MaxK :
                \E r \in {QueryResult(store, q, k, order) : order \in orders} :
                    /\ call' = [op |-> "query", raised |-> r.raised,
                                args |-> [NoArgs EXCEPT !.q = q, !.k = k],
                                ret |-> r]
                    /\ UNCHANGED <<store, disk, notion>>

\* store.get_all_metadata()
GetAllMetadata ==
    /\ call' = [op |-> "get_all_metadata", raised |-> FALSE, args |-> NoArgs,
                ret |-> GetAllMetadataResult(store)]
    /\ UNCHANGED <<store, disk, notion>>

Next == Construct \/ Add \/ Clear \/ Query \/ GetAllMetadata

Spec == Init /\ [][Next]_vars

(***************************************************************************)
(* The indexing runs: index_all_pages over a workspace, from whatever the  *)
(* directory holds.                                                        *)
(***************************************************************************)
InitIndex ==
    /\ notion \in Workspaces
    /\ disk \in InitDisks
    /\ store = Load(disk)
    /\ call = [op |-> "construct", raised |-> FALSE, args |-> NoArgs, ret |-> <<>>]

\* index_all_pages(); before is the directory the run started from, and
\* traversal what fetch_root_pages did (it is not run without an API key)
IndexAllPages ==
    LET r == IndexAllPagesResult(notion, disk)
    IN  /\ store' = r.store
        /\ disk' = r.disk
        /\ call' = [op |-> "index", raised |-> r.raised, args |-> NoArgs,
                    ret |-> r.total_chunks, before |-> disk,
                    traversal |-> IF notion.api_key
                                  THEN FetchRootPages(notion) ELSE NoTraversal]
        /\ UNCHANGED notion

NextIndex == IndexAllPages \/ Construct \/ Clear

SpecIndex == InitIndex /\ [][NextIndex]_vars

(***************************************************************************)
(* The notes application: from a fresh directory, index runs, questions    *)
(* and source listings.                                                    *)
(***************************************************************************)
FreshDisk == [emb |-> NoFile, meta |-> NoJson]

InitNotes ==
    /\ notion \in Workspaces
    /\ disk = FreshDisk
    /\ store = Load(disk)
    /\ call = [op |-> "construct", raised |-> FALSE, args |-> NoArgs, ret |-> <<>>]

\* query(question); count is store.count() of the store it opened
AskQuestion ==
    \E question \in Questions, fail \in ModelFails, answer \in Answers :
        \E order \in QueryOrders(Load(disk), EmbedQuery(question)) :
            LET r == RagQuery(disk, question, order, fail, answer)
            IN  /\ call' = [op |-> "ask", raised |-> r.raised, args |-> NoArgs,
                            ret |-> r, question |-> question,
                            count |-> Count(Load(disk))]
                /\ UNCHANGED <<store, disk, notion>>

\* get_indexed_sources(); all_metadata is what it read from its store
GetIndexedSources ==
    /\ call' = [op |-> "sources", raised |-> FALSE, args |-> NoArgs,
                ret |-> GetIndexedSourcesResult(disk),
                all_metadata |-> GetAllMetadataResult(Load(disk))]
    /\ UNCHANGED <<store, disk, notion>>

NextNotes == IndexAllPages \/ Clear \/ AskQuestion \/ GetIndexedSources

SpecNotes == InitNotes /\ [][NextNotes]_vars

(***************************************************************************)
(* Properties.                                                             *)
(***************************************************************************)
Min(a, b) == IF a < b THEN a ELSE b

\* the rows of the instance's array
Rows(s) ==
    IF s.embeddings.none \/ Len(s.embeddings.shape) = 1
    THEN <<>> ELSE s.embeddings.data

\* C1: constructing a VectorStore over a directory that holds exactly one of
\* embeddings.npy and metadata.json fails with a corrupted-store error; the
\* store is initialized empty only when neither exists.
C1_OneArtifactIsCorruption ==
    (call.op = "construct" /\ disk.emb.exists # disk.meta.exists)
        => call.raised

\* a store that holds records, all of one dimensionality
NonEmptyStore(s) ==
    /\ ~s.embeddings.none
    /\ Len(s.embeddings.shape) = 2
    /\ Count(s) > 0

\* C2: add on a non-empty store of dimensionality D with a vector whose
\* length is not D raises, and leaves the instance (vectors, metadata,
\* count) and both artifacts as they were.
C2_WrongDimensionAddChangesNothing ==
    [][(/\ call'.op = "add"
        /\ NonEmptyStore(store)
        /\ \E i \in 1..Len(call'.args.embeddings) :
               Len(call'.args.embeddings[i]) # store.embeddings.shape[2])
       => (/\ call'.raised
           /\ store' = store
           /\ Count(store') = Count(store)
           /\ disk' = disk)]_vars

\* an add of vectors of length 1 to a store of dimensionality 2 has raised
C2_Witness ==
    /\ call.op = "add"
    /\ call.raised
    /\ NonEmptyStore(store)
    /\ store.embeddings.shape[2] = 2
    /\ disk.emb.exists /\ disk.meta.exists
    /\ call.args.embeddings # <<>>
    /\ \A i \in 1..Len(call.args.embeddings) : Len(call.args.embeddings[i]) = 1

\* C3: for every store and every k >= 0, k = 0 on a non-empty store
\* included, query(q, k) returns at most min(k, count()) records, in order
\* of non-increasing similarity (non-decreasing distance).
C3_QueryAtMostKSorted ==
    (call.op = "query" /\ ~call.raised)
        => /\ Len(call.ret.documents) <= Min(call.args.k, Count(store))
           /\ \A i, j \in 1..Len(call.ret.distances) :
                  i < j => ~DistLess(call.ret.distances[j], call.ret.distances[i])

\* the records index_all_pages is to store for the pages yielded to it
RECURSIVE ExpectedEntries(_), ExpectedVectors(_)
ExpectedEntries(pages) ==
    IF pages = <<>> THEN <<>>
    ELSE LET page == Head(pages)
         IN  [i \in 1..Len(page.content) |->
                 [page_id |-> page.id, title |-> page.title, url |-> page.url,
                  last_edited |-> page.last_edited, chunk_index |-> i - 1,
                  document |-> page.content[i]]]
             \o ExpectedEntries(Tail(pages))

ExpectedVectors(pages) ==
    IF pages = <<>> THEN <<>>
    ELSE [i \in 1..Len(Head(pages).content) |-> EmbedText(Head(pages).content[i])]
         \o ExpectedVectors(Tail(pages))

\* C4: after index_all_pages returns n, whatever the directory held before,
\* a fresh VectorStore over it holds exactly the n chunks of this run, and
\* nothing from before the run.
C4_IndexIsFullRebuild ==
    (call.op = "index" /\ ~call.raised)
        => LET fresh == Load(disk)
           IN  /\ Count(fresh) = call.ret
               /\ fresh.metadata = ExpectedEntries(call.traversal.yielded)
               /\ Rows(fresh) = ExpectedVectors(call.traversal.yielded)

\* the pages reachable from the roots without passing through the page
\* whose fetch fails
RECURSIVE ReachableFrom(_, _)
ReachableFrom(w, S) ==
    LET more == S \cup {p \in NotionPages \ {w.fail.page} :
                          \E parent \in S : \E i \in 1..Len(w.children[parent]) :
                              Dashless(w.children[parent][i]) = p}
    IN  IF more = S THEN S ELSE ReachableFrom(w, more)

ReachableDocuments(w) ==
    LET roots == {ParsePageId(w.roots[i]).id :
                     i \in {j \in 1..Len(w.roots) : ~ParsePageId(w.roots[j]).raised}}
    IN  {p \in ReachableFrom(w, roots \ {w.fail.page}) : w.content[p] # <<>>}

RECURSIVE SumChunks(_, _)
SumChunks(w, S) ==
    IF S = {} THEN 0
    ELSE LET p == CHOOSE p \in S : TRUE
         IN  Len(w.content[p]) + SumChunks(w, S \ {p})

\* C5: a failure fetching one document (its metadata or its blocks, root or
\* descendant) skips only that document: every other document reachable
\* without passing through it is yielded and indexed, the run does not
\* abort, and it returns the chunk count of the documents that succeeded.
C5_FetchFailureSkipsOnlyThatDocument ==
    (call.op = "index" /\ notion.api_key /\ notion.roots # <<>>)
        => /\ ~call.raised
           /\ {Dashless(call.traversal.yielded[i].id) :
                  i \in 1..Len(call.traversal.yielded)} = ReachableDocuments(notion)
           /\ call.ret = SumChunks(notion, ReachableDocuments(notion))

\* C6: after a successful add, a new VectorStore over the directory holds
\* the collection of the instance: same count, same vectors row for row,
\* same metadata and document text, same order.
C6_AddThenReloadIsIdentity ==
    (call.op = "add" /\ ~call.raised)
        => LET fresh == Load(disk)
           IN  /\ Count(fresh) = Count(store)
               /\ fresh.embeddings = store.embeddings
               /\ fresh.metadata = store.metadata

\* a second add has succeeded on a store that held records
C6_Witness ==
    /\ call.op = "add"
    /\ ~call.raised
    /\ Len(call.args.embeddings) = 1
    /\ Count(store) = 3
    /\ NumRows(store.embeddings) = 3

\* C7: after clear, count() is 0, query returns no records and neither
\* artifact exists; clear again, or on an empty or absent store, succeeds
\* and leaves the same empty state.
C7_ClearEmptiesAndIsIdempotent ==
    /\ [](call.op = "clear"
            => /\ ~call.raised
               /\ Count(store) = 0
               /\ ~disk.emb.exists /\ ~disk.meta.exists
               /\ \A q \in QueryVecs, k \in 0..MaxK :
                     \A order \in QueryOrders(store, q) :
                        LET r == QueryResult(store, q, k, order)
                        IN  ~r.raised /\ r.documents = <<>> /\ r.metadatas = <<>>)
    /\ [][(call.op = "clear" /\ call'.op = "clear")
            => (store' = store /\ disk' = disk)]_vars

\* clear has emptied a store that held records and both artifacts
C7_Witness ==
    /\ call.op = "clear"
    /\ call.before.count > 0
    /\ call.before.emb /\ call.before.meta

\* the rows of embeddings.npy
FileRows(f) == f.shape[1]

\* C8: for every instance, after construction and after every add or clear,
\* the number of vectors equals the number of metadata entries, in memory
\* and in the artifacts; the match is checked on load.
C8_VectorsMatchMetadata ==
    /\ NumRows(store.embeddings) = Len(store.metadata)
    /\ (disk.emb.exists /\ disk.meta.exists)
           => FileRows(disk.emb) = Len(disk.meta.text)

\* C9: records of identical similarity to the query come back in insertion
\* order, the earlier-added first.
C9_TiesInInsertionOrder ==
    (call.op = "query" /\ ~call.raised)
        => \A i, j \in 1..Len(call.ret.indices) :
               (/\ i < j
                /\ ~DistLess(call.ret.distances[i], call.ret.distances[j])
                /\ ~DistLess(call.ret.distances[j], call.ret.distances[i]))
                   => call.ret.indices[i] < call.ret.indices[j]

\* C10: a successful add of n records to a store of m records makes count()
\* m + n, keeps the first m records (vector, text, metadata) in place, puts
\* the n new ones after them in input order; get_all_metadata returns the
\* metadata of all records in that order, without the document text.
C10_AddAppends ==
    [][(call'.op = "add" /\ ~call'.raised)
       => LET m == Count(store)
              rows == NumRows(store.embeddings)
              n == Len(call'.args.embeddings)
              all == GetAllMetadataResult(store')
          IN  /\ Count(store') = m + n
              /\ \A i \in 1..m : store'.metadata[i] = store.metadata[i]
              /\ \A i \in 1..Len(Rows(store)) : Rows(store')[i] = Rows(store)[i]
              /\ \A j \in 1..n :
                    /\ store'.metadata[m + j]["document"] = call'.args.documents[j]
                    /\ WithoutDocument(store'.metadata[m + j]) = call'.args.metadatas[j]
                    /\ Rows(store')[rows + j] = call'.args.embeddings[j]
              /\ Len(all) = m + n
              /\ \A i \in 1..m : all[i] = GetAllMetadataResult(store)[i]
              /\ \A j \in 1..n : all[m + j] = call'.args.metadatas[j]
              /\ \A i \in 1..(m + n) : "document" \notin DOMAIN all[i]]_vars

\* two records of different pages have been added to a store that held one
C10_Witness ==
    /\ call.op = "add"
    /\ ~call.raised
    /\ Len(call.args.embeddings) = 2
    /\ call.args.metadatas[1] # call.args.metadatas[2]
    /\ Count(store) = 3
    /\ NumRows(store.embeddings) = 3

\* the positions of metas at which a page_id occurs for the first time
FirstSeen(metas) ==
    {i \in 1..Len(metas) :
        \A j \in 1..(i - 1) : metas[j].page_id # metas[i].page_id}

\* the position of the k-th page_id to occur in metas
NthFirstSeen(metas, k) ==
    CHOOSE i \in FirstSeen(metas) :
        Cardinality({j \in FirstSeen(metas) : j <= i}) = k

\* C11: the sources query returns for the chunks it retrieved, and the
\* list get_indexed_sources returns for the records of the store, hold one
\* entry for each distinct page_id, in the order in which the page_ids
\* first occur in that sequence
C11_SourcesDedupedFirstSeen ==
    /\ (call.op = "ask" /\ ~call.raised) =>
            LET metas == call.ret.retrieved
                sources == call.ret.sources
            IN  /\ Len(sources) = Cardinality({metas[i].page_id : i \in 1..Len(metas)})
                /\ \A k \in 1..Len(sources) :
                        sources[k] = [title |-> metas[NthFirstSeen(metas, k)].title,
                                      url |-> metas[NthFirstSeen(metas, k)].url]
    /\ call.op = "sources" =>
            LET metas == call.all_metadata
                sources == call.ret
            IN  /\ Len(sources) = Cardinality({metas[i].page_id : i \in 1..Len(metas)})
                /\ \A k \in 1..Len(sources) :
                        LET m == metas[NthFirstSeen(metas, k)]
                        IN  sources[k] = [title |-> m.title, url |-> m.url,
                                          last_edited |-> m.last_edited]

\* a query that retrieved a chunk of one page, then one of another page,
\* then one of the first page again
C11_Witness ==
    /\ call.op = "ask"
    /\ ~call.raised
    /\ \E i, j, k \in 1..Len(call.ret.retrieved) :
            /\ i < j /\ j < k
            /\ call.ret.retrieved[i].page_id = call.ret.retrieved[k].page_id
            /\ call.ret.retrieved[i].page_id # call.ret.retrieved[j].page_id
            /\ Len(call.ret.sources) = 2

\* C12: a query over an empty store returns the fixed answer with no
\* sources and calls neither model; a query over a non-empty store whose
\* retrieval yields chunks calls the generation model exactly once
C12_EmptyStoreCallsNoModel ==
    call.op = "ask" =>
        /\ call.count = 0 =>
                /\ ~call.raised
                /\ call.ret.answer =
                       "No notes indexed yet. Run 'python cli.py index' first."
                /\ call.ret.sources = <<>>
                /\ call.ret.embed_calls = 0
                /\ call.ret.llm_calls = 0
        /\ (call.count > 0 /\ call.ret.retrieved # <<>>) =>
                call.ret.llm_calls = 1

\* a query over an empty store that returned without a model call
C12_Witness ==
    /\ call.op = "ask"
    /\ call.count = 0
    /\ ~call.raised
    /\ call.ret.embed_calls = 0
    /\ call.ret.llm_calls = 0

\* C13: in one run of fetch_root_pages no two pages.retrieve requests and
\* no two yielded pages are for the same normalized id, whatever the page
\* graph and the configured roots, so the run ends after at most one
\* request per page of the workspace
C13_EachPageFetchedOnce ==
    call.op = "index" =>
        LET t == call.traversal
        IN  /\ \A i, j \in 1..Len(t.retrieved) :
                    i # j => Dashless(t.retrieved[i]) # Dashless(t.retrieved[j])
            /\ \A i, j \in 1..Len(t.yielded) :
                    i # j => Dashless(t.yielded[i].id) # Dashless(t.yielded[j].id)
            /\ Len(t.retrieved) <= Cardinality(NotionPages)
            /\ Len(t.yielded) <= Len(t.retrieved)

\* a run over pages that reference each other in a cycle, the root being
\* configured twice, that fetched every page
C13_Witness ==
    /\ call.op = "index"
    /\ notion.roots = <<"not a page", "r-0", "r0">>
    /\ notion.children["a1"] = <<"r-0", "b-2">>
    /\ Len(call.traversal.retrieved) = 3
    /\ Len(call.traversal.yielded) >= 2
====
